---- MODULE Spec2Model ----
(***************************************************************************)
(* Model of the clinical-data viewer: the login gate (src/login.py) and    *)
(* the dashboard's reactive callbacks (src/src/dashboard.py).              *)
(*                                                                         *)
(* Column and file names of the source are Cyrillic; the module writes     *)
(* them transliterated:                                                    *)
(*   "Data" = 'Дата', "Imya" = 'Имя', "Pol" = 'Пол', "Vozrast" = 'Возраст',*)
(*   "Gemoglobin" = 'Гемоглобин', "Trombocity" = 'Тромбоциты',             *)
(*   "Eritrocity" = 'Эритроциты', "Diagnoz" = 'Диагноз',                   *)
(*   "... min norma" / "... maks norma" = '... мин норма'/'... макс норма',*)
(*   "analiz_krovi.csv" = 'анализ_крови.csv',                              *)
(*   "analiz_mochi.csv" = 'анализ_мочи.csv'.                               *)
(***************************************************************************)
EXTENDS Integers, Sequences, FiniteSets, TLC

VARIABLES
    df,                 \* merged table handed to register_dashboard_callbacks
    source_column_map,  \* source name -> original ordered column list
    blood_df,           \* distribution-plot table (its column list)
    auth_store,         \* dcc.Store 'auth-store'
    login_feedback,     \* children of 'login-feedback'
    login_style,        \* display of 'login-container'
    dashboard_style,    \* display of 'dashboard-container'
    patient_dropdown,   \* value of 'patient-dropdown'
    patient_data_store, \* dcc.Store 'patient-data-store'
    patient_results,    \* children of 'patient-results'
    visual_section,     \* display of 'visual-section'
    selected_metric,    \* dcc.Store 'selected-metric'
    gauges,             \* props of the rendered gauge toggles, by id
    event,              \* the last user event delivered (history)
    CARD_STYLE,         \* module-level style dict shared by all metric cards
    call                \* the last direct call of a builder: inputs and result

vars == <<df, source_column_map, blood_df, auth_store, login_feedback,
          login_style, dashboard_style, patient_dropdown, patient_data_store,
          patient_results, visual_section, selected_metric, gauges, event,
          CARD_STYLE, call>>

\* the state of the session, which a direct call of a builder leaves alone
session == <<df, source_column_map, blood_df, auth_store, login_feedback,
             login_style, dashboard_style, patient_dropdown, patient_data_store,
             patient_results, visual_section, selected_metric, gauges, event>>

datasets == <<df, source_column_map, blood_df>>

-----------------------------------------------------------------------------
(* Bounds *)

\* most activations of one gauge toggle between two renders
MaxClicks == 3

\* most rows of a table handed directly to a builder
MaxRows == 3

-----------------------------------------------------------------------------
(* Python values: None, str, int, and pandas' NaN for a missing cell *)

None == [tag |-> "None"]
NaN == [tag |-> "nan"]
PyStr(s) == [tag |-> "str", v |-> s]
PyInt(n) == [tag |-> "int", v |-> n]
\* a finite float, kept exactly as a whole number of tenths
PyFloat(t) == [tag |-> "float", tenths |-> t]
no_update == [tag |-> "no_update"]

\* Python truthiness, as used by `not username`, `not patient_key`, `if n_clicks`
Truthy(x) ==
    CASE x.tag = "None" -> FALSE
      [] x.tag = "nan" -> TRUE
      [] x.tag = "str" -> x.v # ""
      [] x.tag = "int" -> x.v # 0

\* pd.isna
isna(x) == x.tag \in {"nan", "None"}

\* a callback output written to a component property: no_update keeps the old
Written(out, old) == IF out = no_update THEN old ELSE out

Range(s) == {s[i] : i \in DOMAIN s}

-----------------------------------------------------------------------------
(* The loaded datasets *)

BLOOD_FILES == {"analiz_krovi.csv", "analiz_krovi.xlsx"}
URINE_FILES == {"analiz_mochi.csv", "analiz_mochi.xlsx"}

REFERENCE_COLUMNS ==
    [m \in {"Gemoglobin", "Trombocity"} |->
        IF m = "Gemoglobin"
        THEN <<"Gemoglobin min norma", "Gemoglobin maks norma">>
        ELSE <<"Trombocity min norma", "Trombocity maks norma">>]

BloodSourceColumns ==
    <<"ID", "Data", "Imya", "Pol", "Gemoglobin", "Gemoglobin min norma",
      "Gemoglobin maks norma", "Trombocity", "Eritrocity", "MCV">>

UrineSourceColumns == <<"ID", "Data", "Imya", "Diagnoz">>

\* columns of the concatenated table, in pd.concat order
DfColumns ==
    <<"ID", "Data", "Imya", "Pol", "Gemoglobin", "Gemoglobin min norma",
      "Gemoglobin maks norma", "Trombocity", "Eritrocity", "MCV",
      "Source_File", "Diagnoz", "Patient_Key">>

BloodRow(id, date, name, pol, hb, lo, hi, plt, rbc, mcv) ==
    [c \in Range(DfColumns) |->
        CASE c = "ID" -> PyInt(id)
          [] c = "Patient_Key" -> PyInt(id)
          [] c = "Data" -> date
          [] c = "Imya" -> name
          [] c = "Pol" -> pol
          [] c = "Gemoglobin" -> hb
          [] c = "Gemoglobin min norma" -> lo
          [] c = "Gemoglobin maks norma" -> hi
          [] c = "Trombocity" -> plt
          [] c = "Eritrocity" -> rbc
          [] c = "MCV" -> mcv
          [] c = "Source_File" -> PyStr("analiz_krovi.csv")
          [] OTHER -> NaN]

UrineRow(id, date, name, diag) ==
    [c \in Range(DfColumns) |->
        CASE c = "ID" -> PyInt(id)
          [] c = "Patient_Key" -> PyInt(id)
          [] c = "Data" -> date
          [] c = "Imya" -> name
          [] c = "Diagnoz" -> diag
          [] c = "Source_File" -> PyStr("analiz_mochi.csv")
          [] OTHER -> NaN]

\* Rows of a merged table with three patients (IDs 0, 1, 2); dates are day
\* numbers.
SampleRows ==
    << BloodRow(1, PyInt(33), PyStr("Anna"), PyStr("F"), PyInt(132), PyInt(120), PyInt(160),
                PyInt(250), PyInt(45), NaN),
       BloodRow(1, PyInt(62), PyStr("Anna"), PyStr("F"), PyInt(141), PyInt(120), PyInt(160),
                NaN, PyInt(50), PyInt(90)),
       BloodRow(2, PyInt(40), PyStr("Boris"), PyStr("M"), NaN, PyInt(130), PyInt(170),
                PyInt(300), NaN, PyInt(88)),
       UrineRow(1, PyInt(50), PyStr("Anna"), PyStr("Positive")),
       UrineRow(0, PyInt(20), PyStr("Vera"), PyStr("negative")),
       UrineRow(2, PyInt(41), PyStr("Boris"), NaN) >>

SampleDf == [columns |-> DfColumns, rows |-> SampleRows]

SampleColumnMap ==
    [s \in {"analiz_krovi.csv", "analiz_mochi.csv"} |->
        IF s = "analiz_krovi.csv" THEN BloodSourceColumns ELSE UrineSourceColumns]

\* column lists the distribution-plot table may have
BloodDfChoices ==
    { <<"ID", "Pol", "Vozrast", "Gemoglobin", "Trombocity", "Eritrocity", "MCV">>,
      <<"ID", "Pol", "Gemoglobin">> }

\* keys a selection event may carry: none, the keys of the table, and a key
\* that has no row
AbsentKey == PyInt(7)
PatientKeys == {None, PyInt(0), PyInt(1), PyInt(2), AbsentKey}

Usernames == {None, PyStr(""), PyStr("alice"), PyStr("bob")}
Passwords == {None, PyStr(""), PyStr("pw"), PyStr("123")}

-----------------------------------------------------------------------------
(* Login gate: src/login.py *)

EmptyFieldsMessage == "Vvedite login i parol."

\* variant: only the username is required
handle_login_UsernameOnly(n_clicks, username, password) ==
    IF ~Truthy(username)
    THEN <<no_update, EmptyFieldsMessage>>
    ELSE <<[authorized |-> TRUE, username |-> username], "">>

\* variant: the username is compared with a known account
handle_login_KnownAccount(n_clicks, username, password) ==
    IF ~Truthy(username) \/ ~Truthy(password) \/ username # PyStr("alice")
    THEN <<no_update, EmptyFieldsMessage>>
    ELSE <<[authorized |-> TRUE, username |-> username], "">>

handle_login(n_clicks, username, password) ==
    IF ~Truthy(username) \/ ~Truthy(password)
    THEN <<no_update, EmptyFieldsMessage>>
    ELSE <<[authorized |-> TRUE, username |-> username], "">>

\* isinstance(x, dict): a dict is a record of its keys, any other Python
\* value carries a tag
isinstance_dict(x) == "tag" \notin DOMAIN x

\* variant: the login form is never hidden
toggle_pages_LoginKept(auth_data) ==
    LET is_authorized ==
            IF isinstance_dict(auth_data)
            THEN IF "authorized" \in DOMAIN auth_data
                 THEN auth_data["authorized"] ELSE FALSE
            ELSE FALSE
    IN  << "flex", IF is_authorized THEN "block" ELSE "none" >>

\* <<display of login-container, display of dashboard-container>>
toggle_pages(auth_data) ==
    LET is_authorized ==
            IF isinstance_dict(auth_data)
            THEN IF "authorized" \in DOMAIN auth_data
                 THEN auth_data["authorized"] ELSE FALSE
            ELSE FALSE
    IN  << IF is_authorized THEN "none" ELSE "flex",
           IF is_authorized THEN "block" ELSE "none" >>

\* variant: the click count is tested the wrong way round
handle_logout_Inverted(n_clicks) ==
    IF ~Truthy(n_clicks) THEN [authorized |-> FALSE] ELSE no_update

handle_logout(n_clicks) ==
    IF Truthy(n_clicks) THEN [authorized |-> FALSE] ELSE no_update

-----------------------------------------------------------------------------
(* Table helpers (pandas operations used by the dashboard) *)

InSeq(x, s) == \E i \in DOMAIN s : s[i] = x

\* DataFrame.sort_values(by=col, ascending=...): missing values last
RowBefore(a, b, col, ascending) ==
    CASE isna(a[col]) -> FALSE
      [] isna(b[col]) -> TRUE
      [] OTHER -> IF ascending THEN a[col].v < b[col].v ELSE a[col].v > b[col].v

RECURSIVE InsertRow(_, _, _, _)
InsertRow(r, sorted, col, ascending) ==
    IF sorted = <<>> THEN <<r>>
    ELSE IF RowBefore(r, Head(sorted), col, ascending)
         THEN <<r>> \o sorted
         ELSE <<Head(sorted)>> \o InsertRow(r, Tail(sorted), col, ascending)

\* variant: the rows are left in the order given
sort_values_Unsorted(rows, col, ascending) == rows

RECURSIVE sort_values(_, _, _)
sort_values(rows, col, ascending) ==
    IF rows = <<>> THEN <<>>
    ELSE InsertRow(rows[Len(rows)],
                   sort_values(SubSeq(rows, 1, Len(rows) - 1), col, ascending),
                   col, ascending)

\* file names in the order DataFrame.groupby('Source_File') yields its groups
SourceOrder ==
    <<"analiz_krovi.csv", "analiz_krovi.xlsx", "analiz_mochi.csv", "analiz_mochi.xlsx">>

SourceOrderSet == Range(SourceOrder)

RowsOfSource(rows, source_name) ==
    SelectSeq(rows, LAMBDA r : r["Source_File"] = PyStr(source_name))

\* the date column of a table: 'Дата', else 'Date', else none
DateColumn(columns) ==
    IF "Data" \in columns THEN PyStr("Data")
    ELSE IF "Date" \in columns THEN PyStr("Date") ELSE None

-----------------------------------------------------------------------------
(* Patient view: src/src/dashboard.py *)

\* float(s.replace(',', '.')) on the strings a cell may hold: None stands for
\* ValueError
FloatOfString(s) ==
    CASE s = "125,5" -> PyFloat(1255)
      [] s = "150.0" -> PyFloat(1500)
      [] s = "nan" -> NaN
      [] OTHER -> None

_to_float(value) ==
    IF value = None \/ value = PyStr("") THEN None
    ELSE CASE value.tag = "str" -> FloatOfString(value.v)
           [] value.tag = "int" -> PyFloat(10 * value.v)
           [] value.tag = "float" -> value
           [] value.tag = "nan" -> NaN

\* a <= b on floats: False as soon as one side is nan
FloatLe(a, b) == a.tag = "float" /\ b.tag = "float" /\ a.tenths <= b.tenths

\* row.get(key): None for a key the row does not have
RowGet(row, key) == IF key \in DOMAIN row THEN row[key] ELSE None

NoDataPlaceholder(title) == [kind |-> "no_data", title |-> title]

\* variant: the value is spread over the whole scale, not the middle third
GaugePosition_FullScale(value, min_norm, max_norm) ==
    IF FloatLe(value, min_norm) THEN [num |-> 0, den |-> 1]
    ELSE IF FloatLe(max_norm, value) THEN [num |-> 1000, den |-> 1]
    ELSE IF NaN \in {value, min_norm, max_norm} THEN NaN
    ELSE [num |-> 1000 * (value.tenths - min_norm.tenths),
          den |-> max_norm.tenths - min_norm.tenths]

\* variant: the bounds themselves fall into the middle third
GaugePosition_StrictBounds(value, min_norm, max_norm) ==
    IF value.tag = "float" /\ min_norm.tag = "float"
       /\ value.tenths < min_norm.tenths THEN [num |-> 0, den |-> 1]
    ELSE IF value.tag = "float" /\ max_norm.tag = "float"
            /\ value.tenths > max_norm.tenths THEN [num |-> 1000, den |-> 1]
    ELSE IF NaN \in {value, min_norm, max_norm} THEN NaN
    ELSE [num |-> 333 * (max_norm.tenths - min_norm.tenths)
                  + 334 * (value.tenths - min_norm.tenths),
          den |-> max_norm.tenths - min_norm.tenths]

\* the marker position, counted in tenths of a percent, as the exact fraction
\* num/den (33.3 + ratio * 33.4 percent is 333 + ratio * 334 tenths); nan when
\* a nan entered the arithmetic
GaugePosition(value, min_norm, max_norm) ==
    IF FloatLe(value, min_norm) THEN [num |-> 0, den |-> 1]
    ELSE IF FloatLe(max_norm, value) THEN [num |-> 1000, den |-> 1]
    ELSE IF NaN \in {value, min_norm, max_norm} THEN NaN
    ELSE [num |-> 333 * (max_norm.tenths - min_norm.tenths)
                  + 334 * (value.tenths - min_norm.tenths),
          den |-> max_norm.tenths - min_norm.tenths]

build_range_gauge(row, value_key, min_key, max_key, title) ==
    LET value == _to_float(RowGet(row, value_key))
        min_norm == _to_float(RowGet(row, min_key))
        max_norm == _to_float(RowGet(row, max_key))
    IN  IF value = None \/ min_norm = None \/ max_norm = None
           \/ FloatLe(max_norm, min_norm)
        THEN NoDataPlaceholder(title)
        ELSE [kind |-> "gauge", title |-> title,
              position |-> GaugePosition(value, min_norm, max_norm),
              marker |-> value, min_label |-> min_norm, max_label |-> max_norm]

build_hemoglobin_gauge(row) ==
    build_range_gauge(row, "Gemoglobin", "Gemoglobin min norma",
                      "Gemoglobin maks norma", "Gemoglobin")

build_platelet_gauge(row) ==
    build_range_gauge(row, "Trombocity", "Trombocity min norma",
                      "Trombocity maks norma", "Trombocity")

empty_gauge_figure(metric_name) ==
    [kind |-> "empty", metric |-> metric_name, points |-> <<>>,
     min_norm |-> <<>>, max_norm |-> <<>>]

\* the toggle button and its graph as first rendered
build_metric_gauge_block(row, row_identifier, metric_id, source_name) ==
    [id |-> [row |-> row_identifier, metric |-> metric_id, source |-> source_name],
     content |-> IF metric_id = "Gemoglobin" THEN build_hemoglobin_gauge(row)
                 ELSE build_platelet_gauge(row),
     n_clicks |-> 0,
     figure |-> empty_gauge_figure(metric_id),
     style |-> "none"]

format_value(value) ==
    IF isna(value) THEN PyStr("N/A") ELSE [tag |-> "text", of |-> value]

\* columns never shown as cards
HiddenColumns ==
    {"ID", "Data", "Date", "Imya", "Pol",
     "Gemoglobin", "Gemoglobin min norma", "Gemoglobin maks norma",
     "Trombocity", "Trombocity min norma", "Trombocity maks norma"}

\* str(value).strip().upper() on the diagnosis strings of the tables
StripUpper(s) ==
    CASE s \in {"Positive", "positive", " POSITIVE "} -> "POSITIVE"
      [] s \in {"negative", "Negative"} -> "NEGATIVE"
      [] OTHER -> s

\* the two keys of CARD_STYLE that the diagnosis colouring overwrites
CardStyleAtImport == [backgroundColor |-> "#fafafa", border |-> "1px solid #e0e0e0"]
PositiveCardStyle == [backgroundColor |-> "#ffe5e5", border |-> "2px solid #d62728"]
OtherCardStyle == [backgroundColor |-> "#e5ffe5", border |-> "2px solid #2ca02c"]

\* variant: the diagnosis is trimmed but compared as written
CardStyle_CaseSensitive(column, source_name, value) ==
    IF column = "Diagnoz" /\ source_name \in URINE_FILES
    THEN IF value.tag = "str" /\ value.v \in {"POSITIVE", " POSITIVE "}
         THEN PositiveCardStyle ELSE OtherCardStyle
    ELSE CARD_STYLE

\* card_style of one card: a copy of CARD_STYLE, recoloured for a urine diagnosis
CardStyle(column, source_name, value) ==
    IF column = "Diagnoz" /\ source_name \in URINE_FILES
    THEN LET diagnosis == IF value.tag = "str" THEN StripUpper(value.v) ELSE ""
         IN  IF diagnosis = "POSITIVE" THEN PositiveCardStyle ELSE OtherCardStyle
    ELSE CARD_STYLE

BuildCards(row, display_columns, columns, source_name) ==
    LET shown == SelectSeq(display_columns, LAMBDA c : c \in columns)
    IN  [i \in 1..Len(shown) |->
            [metric |-> shown[i],
             text |-> format_value(row[shown[i]]),
             style |-> CardStyle(shown[i], source_name, row[shown[i]])]]

\* row.get('Data') or row.get('Date') or 'N/A'
DateValue(row) ==
    IF Truthy(RowGet(row, "Data")) THEN RowGet(row, "Data")
    ELSE IF Truthy(RowGet(row, "Date")) THEN RowGet(row, "Date")
    ELSE PyStr("N/A")

BuildDetails(row, row_idx, display_columns, columns, source_name) ==
    LET row_identifier == <<source_name, row_idx>>
    IN  [summary |-> [source |-> source_name, date_value |-> DateValue(row)],
         gauges |->
            IF source_name \in BLOOD_FILES
            THEN << build_metric_gauge_block(row, row_identifier, "Gemoglobin", source_name),
                    build_metric_gauge_block(row, row_identifier, "Trombocity", source_name) >>
            ELSE <<>>,
         cards |-> BuildCards(row, display_columns, columns, source_name)]

BuildSection(subset, columns, column_map, source_name) ==
    LET source_columns ==
            IF source_name \in DOMAIN column_map
            THEN column_map[source_name]
            ELSE columns
        display_columns == SelectSeq(source_columns, LAMBDA c : c \notin HiddenColumns)
        colset == Range(columns)
    IN  [source |-> source_name,
         header_name |-> IF "Imya" \in colset THEN subset[1]["Imya"]
                         ELSE PyStr("Imya neizvestno"),
         header_gender |-> IF "Pol" \in colset THEN subset[1]["Pol"]
                           ELSE PyStr("Pol neizvesten"),
         rows |-> [i \in 1..Len(subset) |->
                      BuildDetails(subset[i], i - 1, display_columns, colset, source_name)]]

NoPatientDataMessage == [kind |-> "message", text |-> "Net dannyh po vybrannomu pacientu."]
EmptyDiv == [kind |-> "div"]

\* variant: of equal values the last one is kept (keep='last')
drop_duplicates_KeepLast(values) ==
    SelectSeq([i \in DOMAIN values |-> <<i, values[i]>>],
              LAMBDA p : \A j \in DOMAIN values : values[j] = p[2] => j <= p[1])

\* Series.drop_duplicates(): of equal values the first one is kept; the index
\* travels with each value
drop_duplicates(values) ==
    SelectSeq([i \in DOMAIN values |-> <<i, values[i]>>],
              LAMBDA p : \A j \in DOMAIN values : values[j] = p[2] => j >= p[1])

\* f"Pacient: ID {idx}"
OptionLabel(idx) == [tag |-> "text", prefix |-> "Pacient: ID ", of |-> idx]

build_patient_options(df_source) ==
    LET unique_patients == drop_duplicates([i \in DOMAIN df_source.rows |->
                                               df_source.rows[i]["ID"]])
    IN  [i \in DOMAIN unique_patients |->
            [label |-> OptionLabel(unique_patients[i][2]),
             value |-> unique_patients[i][2]]]

\* the columns the scatter plot needs, under the names the tests use
\* ("Eritrocity", "Gemoglobin", "Pol", "Vozrast")
required_cols == {"Eritrocity", "Gemoglobin", "Pol", "Vozrast"}

LoadAnalysesTitle == "Zagruzite analizy, chtoby postroit' diagrammu"
CorrelationTitle == "Correlation between Red Blood Cell Count and Hemoglobin"

\* px.scatter() without data: one trace with no points
EmptyScatterTrace == [name |-> None, x |-> <<>>, y |-> <<>>]

\* selection of one column of the given rows, in row order
ColumnOf(rows, col) == [i \in DOMAIN rows |-> rows[i][col]]

\* px.scatter(df, x=, y=, color=): one trace per value of the colour column,
\* in order of first occurrence, each with the rows of that value in row order
px_scatter(rows, x, y, color) ==
    IF rows = <<>> THEN <<EmptyScatterTrace>>
    ELSE LET groups == drop_duplicates(ColumnOf(rows, color))
         IN  [g \in DOMAIN groups |->
                 LET members == SelectSeq(rows, LAMBDA r : r[color] = groups[g][2])
                 IN  [name |-> groups[g][2],
                      x |-> ColumnOf(members, x),
                      y |-> ColumnOf(members, y)]]

\* variant: the points are not split by the colour column
build_scatter_figure_OneTrace(df_source) ==
    IF ~(required_cols \subseteq Range(df_source.columns))
    THEN [data |-> <<EmptyScatterTrace>>, title |-> LoadAnalysesTitle]
    ELSE [data |-> << [name |-> None,
                       x |-> ColumnOf(df_source.rows, "Eritrocity"),
                       y |-> ColumnOf(df_source.rows, "Gemoglobin")] >>,
          title |-> CorrelationTitle]

build_scatter_figure(df_source) ==
    IF ~(required_cols \subseteq Range(df_source.columns))
    THEN [data |-> <<EmptyScatterTrace>>, title |-> LoadAnalysesTitle]
    ELSE [data |-> px_scatter(df_source.rows, "Eritrocity", "Gemoglobin", "Pol"),
          title |-> CorrelationTitle]

\* variant: the rows are sorted by date ascending, oldest first
build_patient_result_sections_Ascending(patient_df, column_map) ==
    IF patient_df.rows = <<>> THEN NoPatientDataMessage
    ELSE
        LET date_column == DateColumn(Range(patient_df.columns))
            sorted == IF date_column # None
                      THEN sort_values(patient_df.rows, date_column.v, TRUE)
                      ELSE patient_df.rows
            present == SelectSeq(SourceOrder,
                                 LAMBDA s : RowsOfSource(sorted, s) # <<>>)
        IN  [kind |-> "sections",
             sections |-> [i \in 1..Len(present) |->
                              BuildSection(RowsOfSource(sorted, present[i]),
                                           patient_df.columns, column_map, present[i])]]

build_patient_result_sections(patient_df, column_map) ==
    IF patient_df.rows = <<>> THEN NoPatientDataMessage
    ELSE
        LET date_column == DateColumn(Range(patient_df.columns))
            sorted == IF date_column # None
                      THEN sort_values(patient_df.rows, date_column.v, FALSE)
                      ELSE patient_df.rows
            present == SelectSeq(SourceOrder,
                                 LAMBDA s : RowsOfSource(sorted, s) # <<>>)
        IN  [kind |-> "sections",
             sections |-> [i \in 1..Len(present) |->
                              BuildSection(RowsOfSource(sorted, present[i]),
                                           patient_df.columns, column_map, present[i])]]

\* variant: no early return for an empty key
handle_patient_selection_NoEmptyCheck(patient_key) ==
    LET patient_df ==
            [columns |-> df.columns,
             rows |-> SelectSeq(df.rows, LAMBDA r : r["Patient_Key"] = patient_key)]
    IN  IF patient_df.rows = <<>>
        THEN <<(<<>>), NoPatientDataMessage, "none">>
        ELSE <<patient_df.rows,
               build_patient_result_sections(patient_df, source_column_map),
               "block">>

\* variant: the whole merged table is stored for a patient that has rows
handle_patient_selection_WholeTable(patient_key) ==
    IF ~Truthy(patient_key) THEN <<(<<>>), EmptyDiv, "none">>
    ELSE
        LET patient_df ==
                [columns |-> df.columns,
                 rows |-> SelectSeq(df.rows, LAMBDA r : r["Patient_Key"] = patient_key)]
        IN  IF patient_df.rows = <<>>
            THEN <<(<<>>), NoPatientDataMessage, "none">>
            ELSE <<df.rows,
                   build_patient_result_sections(patient_df, source_column_map),
                   "block">>

\* <<patient-data-store, patient-results, display of visual-section>>
handle_patient_selection(patient_key) ==
    IF ~Truthy(patient_key) THEN <<(<<>>), EmptyDiv, "none">>
    ELSE
        LET patient_df ==
                [columns |-> df.columns,
                 rows |-> SelectSeq(df.rows, LAMBDA r : r["Patient_Key"] = patient_key)]
        IN  IF patient_df.rows = <<>>
            THEN <<(<<>>), NoPatientDataMessage, "none">>
            ELSE <<patient_df.rows,
                   build_patient_result_sections(patient_df, source_column_map),
                   "block">>

-----------------------------------------------------------------------------
(* Gauge history and metric selection: src/src/dashboard.py *)

PointsOf(rows, xcol, ycol) == [i \in 1..Len(rows) |-> <<rows[i][xcol], rows[i][ycol]>>]

\* a reference-bound overlay is drawn when its column exists with some value
Overlay(rows, columns, date_col, col) ==
    IF col \in columns /\ \E i \in DOMAIN rows : ~isna(rows[i][col])
    THEN PointsOf(rows, date_col, col)
    ELSE <<>>

\* variant: no return of the placeholder when dropna leaves no row
_build_metric_history_NoEmptyCheck(records, source_name, metric_key) ==
    LET fig == empty_gauge_figure(metric_key)
        columns == IF records = <<>> THEN {} ELSE DOMAIN records[1]
        of_source == IF "Source_File" \in columns
                     THEN RowsOfSource(records, source_name) ELSE <<>>
        date_col == DateColumn(columns)
        valued == IF metric_key \in columns
                  THEN SelectSeq(of_source, LAMBDA r : ~isna(r[metric_key]))
                  ELSE <<>>
    IN  IF records = <<>> THEN fig
        ELSE IF "Source_File" \notin columns THEN fig
        ELSE IF of_source = <<>> \/ metric_key \notin columns THEN fig
        ELSE IF date_col = None THEN fig
        ELSE LET ordered == sort_values(valued, date_col.v, TRUE)
                 ref == IF metric_key \in DOMAIN REFERENCE_COLUMNS
                        THEN REFERENCE_COLUMNS[metric_key] ELSE <<>>
             IN  [kind |-> "line", metric |-> metric_key,
                  points |-> PointsOf(ordered, date_col.v, metric_key),
                  min_norm |-> IF ref = <<>> THEN <<>>
                               ELSE Overlay(ordered, columns, date_col.v, ref[1]),
                  max_norm |-> IF ref = <<>> THEN <<>>
                               ELSE Overlay(ordered, columns, date_col.v, ref[2])]

_build_metric_history(records, source_name, metric_key) ==
    LET fig == empty_gauge_figure(metric_key)
        columns == IF records = <<>> THEN {} ELSE DOMAIN records[1]
        of_source == IF "Source_File" \in columns
                     THEN RowsOfSource(records, source_name) ELSE <<>>
        date_col == DateColumn(columns)
        valued == IF metric_key \in columns
                  THEN SelectSeq(of_source, LAMBDA r : ~isna(r[metric_key]))
                  ELSE <<>>
    IN  IF records = <<>> THEN fig
        ELSE IF "Source_File" \notin columns THEN fig
        ELSE IF of_source = <<>> \/ metric_key \notin columns THEN fig
        ELSE IF date_col = None THEN fig
        ELSE IF valued = <<>> THEN fig
        ELSE LET ordered == sort_values(valued, date_col.v, TRUE)
                 ref == IF metric_key \in DOMAIN REFERENCE_COLUMNS
                        THEN REFERENCE_COLUMNS[metric_key] ELSE <<>>
             IN  [kind |-> "line", metric |-> metric_key,
                  points |-> PointsOf(ordered, date_col.v, metric_key),
                  min_norm |-> IF ref = <<>> THEN <<>>
                               ELSE Overlay(ordered, columns, date_col.v, ref[1]),
                  max_norm |-> IF ref = <<>> THEN <<>>
                               ELSE Overlay(ordered, columns, date_col.v, ref[2])]

\* variant: the graph is shown after any activation
toggle_gauge_plot_NoParity(n_clicks, records, button_id) ==
    LET fig == _build_metric_history(records, button_id.source, button_id.metric)
    IN  IF Truthy(n_clicks)
        THEN <<fig, "block">>
        ELSE <<fig, "none">>

\* variant: the history is always that of the hemoglobin
toggle_gauge_plot_FixedMetric(n_clicks, records, button_id) ==
    LET fig == _build_metric_history(records, button_id.source, "Gemoglobin")
    IN  IF Truthy(n_clicks) /\ n_clicks.v % 2 = 1
        THEN <<fig, "block">>
        ELSE <<fig, "none">>

\* <<figure, display of the graph>>
toggle_gauge_plot(n_clicks, records, button_id) ==
    LET fig == _build_metric_history(records, button_id.source, button_id.metric)
    IN  IF Truthy(n_clicks) /\ n_clicks.v % 2 = 1
        THEN <<fig, "block">>
        ELSE <<fig, "none">>

\* variant: the metric is not looked up in the distribution-plot table
set_selected_metric_Unchecked(triggered_id, current_metric) ==
    IF triggered_id = None THEN no_update
    ELSE LET metric == IF "metric" \in DOMAIN triggered_id
                       THEN triggered_id.metric ELSE ""
         IN  IF metric # "" THEN PyStr(metric) ELSE current_metric

\* variant: None is returned, instead of no_update, when no card fired
set_selected_metric_ReturnsNone(triggered_id, current_metric) ==
    IF triggered_id = None THEN None
    ELSE LET metric == IF "metric" \in DOMAIN triggered_id
                       THEN triggered_id.metric ELSE ""
         IN  IF metric # "" /\ InSeq(metric, blood_df)
             THEN PyStr(metric)
             ELSE current_metric

\* variant: a click on the card of the metric already selected clears it
set_selected_metric_Deselect(triggered_id, current_metric) ==
    IF triggered_id = None THEN no_update
    ELSE LET metric == IF "metric" \in DOMAIN triggered_id
                       THEN triggered_id.metric ELSE ""
         IN  IF metric # "" /\ InSeq(metric, blood_df)
             THEN (IF current_metric = PyStr(metric) THEN None ELSE PyStr(metric))
             ELSE current_metric

\* triggered_id is None when no card fired the callback (cards just rendered)
set_selected_metric(triggered_id, current_metric) ==
    IF triggered_id = None THEN no_update
    ELSE LET metric == IF "metric" \in DOMAIN triggered_id
                       THEN triggered_id.metric ELSE ""
         IN  IF metric # "" /\ InSeq(metric, blood_df)
             THEN PyStr(metric)
             ELSE current_metric

\* preferred metrics of the distribution plot, in order of preference
numerical_cols ==
    <<"Hemoglobin", "Platelet_Count", "White_Blood_Cells",
      "Red_Blood_Cells", "MCV", "MCH", "MCHC">>

default_parameter(blood_columns) ==
    LET options == SelectSeq(numerical_cols, LAMBDA c : InSeq(c, blood_columns))
    IN  IF options # <<>> THEN PyStr(options[1]) ELSE None

-----------------------------------------------------------------------------
(* Rendered components *)

\* the gauge blocks of a rendered patient view
RenderedGaugeBlocks(results) ==
    IF results.kind # "sections" THEN {}
    ELSE UNION { UNION { Range(results.sections[i].rows[j].gauges) :
                           j \in DOMAIN results.sections[i].rows } :
                 i \in DOMAIN results.sections }

\* the metrics of the metric cards of a rendered patient view
RenderedCardMetrics(results) ==
    IF results.kind # "sections" THEN {}
    ELSE UNION { UNION { {c.metric : c \in Range(results.sections[i].rows[j].cards)} :
                           j \in DOMAIN results.sections[i].rows } :
                 i \in DOMAIN results.sections }

\* the styles of the metric cards of a rendered patient view
RenderedCardStyles(results) ==
    IF results.kind # "sections" THEN {}
    ELSE UNION { UNION { {c.style : c \in Range(results.sections[i].rows[j].cards)} :
                           j \in DOMAIN results.sections[i].rows } :
                 i \in DOMAIN results.sections }

\* variant: the cards recolour CARD_STYLE itself, not a copy of it
CardStyleAfterRender_NoCopy(shared, results) ==
    LET recoloured == RenderedCardStyles(results) \ {shared}
    IN  IF recoloured = {} THEN shared ELSE CHOOSE st \in recoloured : TRUE

\* CARD_STYLE after a patient view was built: every card styles a copy
\* (CARD_STYLE.copy()), so the shared dict is as before
CardStyleAfterRender(shared, results) == shared

\* props of the gauge toggles right after a render, by toggle id
InitialGaugeProps(results) ==
    LET blocks == RenderedGaugeBlocks(results)
    IN  [id \in {b.id : b \in blocks} |->
            LET b == CHOOSE b \in blocks : b.id = id
            IN  [n_clicks |-> b.n_clicks, figure |-> b.figure, style |-> b.style]]

\* variant: the outputs address every graph (ALL) instead of the clicked
\* toggle's own graph (MATCH)
ToggledGauges_AllGraphs(g, records, id) ==
    LET n == g[id].n_clicks + 1
        out == toggle_gauge_plot(PyInt(n), records, id)
    IN  [o \in DOMAIN g |->
            [n_clicks |-> IF o = id THEN n ELSE g[o].n_clicks,
             figure |-> out[1], style |-> out[2]]]

\* the toggles' props after toggle id is clicked once more: the callback's
\* outputs go to the graph whose (row, metric, source) matches the toggle's
ToggledGauges(g, records, id) ==
    LET n == g[id].n_clicks + 1
        out == toggle_gauge_plot(PyInt(n), records, id)
    IN  [g EXCEPT ![id] = [n_clicks |-> n, figure |-> out[1], style |-> out[2]]]

\* 'patient-results' lies inside 'visual-section', itself inside
\* 'dashboard-container': its children show only when both are displayed
PatientResultsDisplayed == dashboard_style = "block" /\ visual_section = "block"

-----------------------------------------------------------------------------
(* The state machine *)

InitialAuth == [authorized |-> FALSE]

\* no builder has been called directly yet
NoCall == [fn |-> "none"]

SessionInit ==
    /\ df = SampleDf
    /\ source_column_map = SampleColumnMap
    /\ blood_df \in BloodDfChoices
    /\ auth_store = InitialAuth
    /\ login_feedback = ""
    /\ login_style = toggle_pages(InitialAuth)[1]
    /\ dashboard_style = toggle_pages(InitialAuth)[2]
    /\ patient_dropdown = None
    /\ patient_data_store = handle_patient_selection(None)[1]
    /\ patient_results = handle_patient_selection(None)[2]
    /\ visual_section = handle_patient_selection(None)[3]
    /\ selected_metric = default_parameter(blood_df)
    /\ gauges = InitialGaugeProps(EmptyDiv)
    /\ event = [type |-> "init"]
    /\ CARD_STYLE = CardStyleAtImport

Init == SessionInit /\ call = NoCall

\* the login button is clicked with the two fields as typed
Login(username, password) ==
    /\ login_style = "flex"
    /\ LET out == handle_login(PyInt(1), username, password)
           auth == Written(out[1], auth_store)
       IN  /\ auth_store' = auth
           /\ login_feedback' = out[2]
           /\ login_style' = IF out[1] = no_update THEN login_style
                             ELSE toggle_pages(auth)[1]
           /\ dashboard_style' = IF out[1] = no_update THEN dashboard_style
                                 ELSE toggle_pages(auth)[2]
    /\ event' = [type |-> "login", username |-> username, password |-> password]
    /\ UNCHANGED <<datasets, CARD_STYLE, call, patient_dropdown, patient_data_store, patient_results,
                   visual_section, selected_metric, gauges>>

\* the logout button is clicked for the n-th time
Logout(n) ==
    /\ dashboard_style = "block"
    /\ LET out == handle_logout(PyInt(n))
           auth == Written(out, auth_store)
       IN  /\ auth_store' = auth
           /\ login_style' = IF out = no_update THEN login_style
                             ELSE toggle_pages(auth)[1]
           /\ dashboard_style' = IF out = no_update THEN dashboard_style
                                 ELSE toggle_pages(auth)[2]
    /\ event' = [type |-> "logout", n_clicks |-> n]
    /\ UNCHANGED <<datasets, CARD_STYLE, call, login_feedback, patient_dropdown, patient_data_store,
                   patient_results, visual_section, selected_metric, gauges>>

\* the patient picker changes to patient_key; the view is rendered anew, which
\* fires set_selected_metric for the inserted cards with no triggering card.
\* The event records which toggles were expanded when it arrived.
SelectPatient(patient_key) ==
    /\ dashboard_style = "block"
    /\ patient_key # patient_dropdown
    /\ patient_dropdown' = patient_key
    /\ LET out == handle_patient_selection(patient_key)
       IN  /\ patient_data_store' = out[1]
           /\ patient_results' = out[2]
           /\ visual_section' = out[3]
           /\ gauges' = InitialGaugeProps(out[2])
           /\ CARD_STYLE' = CardStyleAfterRender(CARD_STYLE, out[2])
    /\ selected_metric' = Written(set_selected_metric(None, selected_metric),
                                  selected_metric)
    /\ event' = [type |-> "select", patient_key |-> patient_key,
                 expanded |-> {id \in DOMAIN gauges : gauges[id].style = "block"}]
    /\ UNCHANGED <<datasets, call, auth_store, login_feedback, login_style,
                   dashboard_style>>

\* a displayed metric card is clicked
ActivateCard(metric) ==
    /\ PatientResultsDisplayed
    /\ metric \in RenderedCardMetrics(patient_results)
    /\ selected_metric' =
          Written(set_selected_metric([type |-> "metric-card", metric |-> metric],
                                      selected_metric),
                  selected_metric)
    /\ event' = [type |-> "card", metric |-> metric]
    /\ UNCHANGED <<datasets, CARD_STYLE, call, auth_store, login_feedback, login_style, dashboard_style,
                   patient_dropdown, patient_data_store, patient_results,
                   visual_section, gauges>>

\* a displayed gauge toggle is clicked
ToggleGauge(id) ==
    /\ PatientResultsDisplayed
    /\ id \in DOMAIN gauges
    /\ gauges[id].n_clicks < MaxClicks
    /\ gauges' = ToggledGauges(gauges, patient_data_store, id)
    /\ event' = [type |-> "toggle", id |-> id]
    /\ UNCHANGED <<datasets, CARD_STYLE, call, auth_store, login_feedback, login_style, dashboard_style,
                   patient_dropdown, patient_data_store, patient_results,
                   visual_section, selected_metric>>

\* every metric a card may carry
CardMetrics == Range(DfColumns)

\* every id a gauge toggle may carry
ToggleIds ==
    [row : SourceOrderSet \X (0..(Len(SampleRows) - 1)),
     metric : {"Gemoglobin", "Trombocity"},
     source : SourceOrderSet]

Next ==
    \/ \E u \in Usernames, p \in Passwords : Login(u, p)
    \/ \E n \in 1..MaxClicks : Logout(n)
    \/ \E k \in PatientKeys : SelectPatient(k)
    \/ \E m \in CardMetrics : ActivateCard(m)
    \/ \E id \in ToggleIds : ToggleGauge(id)

Spec == Init /\ [][Next]_vars

-----------------------------------------------------------------------------
(* Direct calls of the builders, on inputs drawn from small sets *)

\* marks a key the row does not have at all
MissingKey == [tag |-> "missing"]

\* what a cell of the value or of a bound may hold
GaugeCells ==
    {MissingKey, None, PyStr(""), NaN, PyStr("abc"), PyStr("125,5"), PyStr("150.0"),
     PyInt(100), PyInt(120), PyInt(132), PyInt(160), PyInt(200)}

GaugeRow(value, lo, hi) ==
    LET cells == [k \in {"Gemoglobin", "Gemoglobin min norma", "Gemoglobin maks norma"} |->
                    CASE k = "Gemoglobin" -> value
                      [] k = "Gemoglobin min norma" -> lo
                      [] OTHER -> hi]
    IN  [k \in {c \in DOMAIN cells : cells[c] # MissingKey} |-> cells[k]]

\* a call not yet made: its arguments are chosen, its result is not there
Pending(fn, args) == [fn |-> fn, args |-> args, done |-> FALSE, out |-> None]

\* the same call once made
Returned(out) == [call EXCEPT !.done = TRUE, !.out = out]

GaugeCalls ==
    { Pending("build_range_gauge", [value |-> value, lo |-> lo, hi |-> hi]) :
        value \in GaugeCells, lo \in GaugeCells, hi \in GaugeCells }

CallGauge ==
    /\ call.fn = "build_range_gauge" /\ ~call.done
    /\ call' = Returned(build_hemoglobin_gauge(
                            GaugeRow(call.args.value, call.args.lo, call.args.hi)))
    /\ UNCHANGED <<session, CARD_STYLE>>

\* a row of a patient-data-store, as far as the history reads it
HistoryRow(src, date, hb) ==
    [c \in {"Source_File", "Data", "Gemoglobin"} |->
        CASE c = "Source_File" -> PyStr(src)
          [] c = "Data" -> date
          [] OTHER -> hb]

\* rows a patient-data-store may hold: two sources, dates as day numbers or
\* missing, the metric present or missing
HistoryRows ==
    { HistoryRow("analiz_krovi.csv", date, hb) :
        date \in {PyInt(33), PyInt(62), NaN}, hb \in {PyInt(132), NaN} }
    \cup { HistoryRow("analiz_mochi.csv", PyInt(33), PyInt(132)),
           HistoryRow("analiz_mochi.csv", PyInt(62), NaN) }

\* all sequences over S of length at most n
SeqsUpTo(S, n) == UNION { [1..k -> S] : k \in 0..n }

\* the table without column col
DropColumn(rows, col) ==
    [i \in DOMAIN rows |-> [c \in DOMAIN rows[i] \ {col} |-> rows[i][c]]]

HistoryCalls ==
    { Pending("_build_metric_history",
              [records |-> IF lacking = "" THEN rows ELSE DropColumn(rows, lacking),
               source_name |-> source_name, metric_key |-> metric_key]) :
        rows \in SeqsUpTo(HistoryRows, MaxRows), lacking \in {"", "Data", "Source_File"},
        source_name \in {"analiz_krovi.csv", "analiz_mochi.csv"},
        metric_key \in {"Gemoglobin", "MCV"} }

CallHistory ==
    /\ call.fn = "_build_metric_history" /\ ~call.done
    /\ call' = Returned(_build_metric_history(call.args.records, call.args.source_name,
                                              call.args.metric_key))
    /\ UNCHANGED <<session, CARD_STYLE>>

\* a row of a patient's table, as far as the order of its view shows
SectionRow(src, date, mcv) ==
    [c \in {"Data", "MCV", "Source_File"} |->
        CASE c = "Source_File" -> PyStr(src)
          [] c = "Data" -> date
          [] OTHER -> mcv]

SectionRows ==
    { SectionRow("analiz_krovi.csv", date, mcv) :
        date \in {PyInt(33), PyInt(62), NaN}, mcv \in {PyInt(88), PyInt(90)} }
    \cup { SectionRow("analiz_mochi.csv", PyInt(50), PyInt(88)),
           SectionRow("analiz_mochi.csv", PyInt(20), NaN) }

\* a column map under which both sources list the measurement
SectionColumnMap ==
    [s \in {"analiz_krovi.csv", "analiz_mochi.csv"} |-> <<"Data", "MCV">>]

SectionCalls ==
    { Pending("build_patient_result_sections",
              [patient_df |->
                  IF has_date
                  THEN [columns |-> <<"Data", "MCV", "Source_File">>, rows |-> rows]
                  ELSE [columns |-> <<"MCV", "Source_File">>,
                        rows |-> DropColumn(rows, "Data")],
               column_map |-> SectionColumnMap]) :
        rows \in SeqsUpTo(SectionRows, MaxRows), has_date \in BOOLEAN }

\* a row with a diagnosis, of a urine or of a blood source
DiagnosisRow(src, diag) ==
    [c \in {"MCV", "Diagnoz", "Source_File"} |->
        CASE c = "Source_File" -> PyStr(src)
          [] c = "Diagnoz" -> diag
          [] OTHER -> PyInt(88)]

DiagnosisRows ==
    { DiagnosisRow(src, diag) :
        src \in {"analiz_krovi.csv", "analiz_mochi.csv"},
        diag \in {PyStr("Positive"), PyStr(" POSITIVE "), PyStr("negative"), NaN} }

\* tables without dates in which both sources list a diagnosis
DiagnosisCalls ==
    { Pending("build_patient_result_sections",
              [patient_df |-> [columns |-> <<"MCV", "Diagnoz", "Source_File">>,
                               rows |-> rows],
               column_map |-> [s \in {"analiz_krovi.csv", "analiz_mochi.csv"} |->
                                  <<"MCV", "Diagnoz">>]]) :
        rows \in SeqsUpTo(DiagnosisRows, MaxRows) }

CallSections ==
    /\ call.fn = "build_patient_result_sections" /\ ~call.done
    /\ call' = Returned(build_patient_result_sections(call.args.patient_df,
                                                      call.args.column_map))
    /\ UNCHANGED <<session, CARD_STYLE>>

\* tables of the patient picker: an ID, possibly missing, and an age per row
OptionCalls ==
    { Pending("build_patient_options",
              [df_source |->
                  [columns |-> <<"ID", "Vozrast">>,
                   rows |-> [i \in DOMAIN ids |->
                               [c \in {"ID", "Vozrast"} |->
                                   IF c = "ID" THEN ids[i] ELSE PyInt(30 + i)]]]]) :
        ids \in SeqsUpTo({PyInt(0), PyInt(1), PyInt(2), NaN}, MaxRows) }

CallOptions ==
    /\ call.fn = "build_patient_options" /\ ~call.done
    /\ call' = Returned(build_patient_options(call.args.df_source))
    /\ UNCHANGED <<session, CARD_STYLE>>

ScatterColumns == <<"ID", "Eritrocity", "Gemoglobin", "Pol", "Vozrast">>

ScatterRows ==
    { [c \in Range(ScatterColumns) |->
          CASE c = "ID" -> PyInt(1)
            [] c = "Eritrocity" -> rbc
            [] c = "Gemoglobin" -> hb
            [] c = "Pol" -> pol
            [] OTHER -> PyInt(30)] :
      rbc \in {PyInt(45), PyInt(50)}, hb \in {PyInt(132), PyInt(141)},
      pol \in {PyStr("F"), PyStr("M")} }

\* complete tables, and tables that lack one of the required columns
ScatterCalls ==
    { Pending("build_scatter_figure",
              [df_source |->
                  IF lacking = ""
                  THEN [columns |-> ScatterColumns, rows |-> rows]
                  ELSE [columns |-> SelectSeq(ScatterColumns, LAMBDA c : c # lacking),
                        rows |-> DropColumn(rows, lacking)]]) :
        rows \in SeqsUpTo(ScatterRows, MaxRows), lacking \in {"", "Pol", "Eritrocity"} }

CallScatter ==
    /\ call.fn = "build_scatter_figure" /\ ~call.done
    /\ call' = Returned(build_scatter_figure(call.args.df_source))
    /\ UNCHANGED <<session, CARD_STYLE>>

\* what pd.read_csv gives for a file that does not parse: an exception
ParseError == [tag |-> "ParseError"]

\* sorted(data_dir.glob('*.csv')): the names of the directory's csv files, sorted
GlobCsv(data_dir) ==
    IF ~data_dir.exists THEN <<>>
    ELSE SelectSeq(SourceOrder,
                   LAMBDA n : n \in DOMAIN data_dir.files
                              /\ n \in {"analiz_krovi.csv", "analiz_mochi.csv"})

\* the frame of one file with its Source_File column added
WithSourceFile(frame, name) ==
    [columns |-> frame.columns \o <<"Source_File">>,
     rows |-> [i \in DOMAIN frame.rows |->
                 [c \in DOMAIN frame.rows[i] \cup {"Source_File"} |->
                     IF c = "Source_File" THEN PyStr(name) ELSE frame.rows[i][c]]]]

\* pd.concat(frames, ignore_index=True): the columns in order of first
\* appearance, the rows one frame after the other, NaN where a frame lacks a column
RECURSIVE concat(_)
concat(frames) ==
    IF frames = <<>> THEN [columns |-> <<>>, rows |-> <<>>]
    ELSE LET before == concat(SubSeq(frames, 1, Len(frames) - 1))
             last == frames[Len(frames)]
             columns == before.columns
                        \o SelectSeq(last.columns, LAMBDA c : ~InSeq(c, before.columns))
             Widen(r) == [c \in Range(columns) |-> IF c \in DOMAIN r THEN r[c] ELSE NaN]
         IN  [columns |-> columns,
              rows |-> [i \in DOMAIN before.rows |-> Widen(before.rows[i])]
                       \o [i \in DOMAIN last.rows |-> Widen(last.rows[i])]]

\* variant: no try/except around read_csv, one bad file aborts the load
load_all_datasets_AbortOnError(data_dir) ==
    LET names == GlobCsv(data_dir)
    IN  IF names = <<>> \/ \E i \in DOMAIN names : data_dir.files[names[i]] = ParseError
        THEN [raised |-> "FileNotFoundError"]
        ELSE [raised |-> "",
              combined |-> concat([i \in DOMAIN names |->
                                     WithSourceFile(data_dir.files[names[i]], names[i])]),
              column_map |-> [n \in Range(names) |-> data_dir.files[n].columns]]

load_all_datasets(data_dir) ==
    LET parsed == SelectSeq(GlobCsv(data_dir),
                            LAMBDA n : data_dir.files[n] # ParseError)
        frames == [i \in DOMAIN parsed |->
                      WithSourceFile(data_dir.files[parsed[i]], parsed[i])]
    IN  IF frames = <<>> THEN [raised |-> "FileNotFoundError"]
        ELSE [raised |-> "",
              combined |-> concat(frames),
              column_map |-> [n \in Range(parsed) |-> data_dir.files[n].columns]]

\* what a file of the data directory may hold
BloodFileContents ==
    { ParseError,
      [columns |-> <<"ID", "Gemoglobin">>, rows |-> <<>>],
      [columns |-> <<"ID", "Gemoglobin">>,
       rows |-> << [ID |-> PyInt(1), Gemoglobin |-> PyInt(132)],
                   [ID |-> PyInt(2), Gemoglobin |-> NaN] >>] }

UrineFileContents ==
    { ParseError,
      [columns |-> <<"ID", "Diagnoz">>,
       rows |-> << [ID |-> PyInt(1), Diagnoz |-> PyStr("Positive")] >>] }

FileContents(name) ==
    CASE name = "analiz_krovi.csv" -> BloodFileContents
      [] name = "analiz_mochi.csv" -> UrineFileContents
      [] OTHER -> { [columns |-> <<"ID">>, rows |-> << [ID |-> PyInt(3)] >>] }

\* directories: absent or present, with any of two csv files and one xlsx file
DataDirs ==
    UNION { { [exists |-> exists, files |-> files] :
                exists \in BOOLEAN,
                files \in { f \in [names -> UNION {FileContents(n) : n \in names}] :
                               \A n \in names : f[n] \in FileContents(n) } } :
            names \in SUBSET {"analiz_krovi.csv", "analiz_mochi.csv", "analiz_krovi.xlsx"} }

LoaderCalls == { Pending("load_all_datasets", [data_dir |-> d]) : d \in DataDirs }

CallLoader ==
    /\ call.fn = "load_all_datasets" /\ ~call.done
    /\ call' = Returned(load_all_datasets(call.args.data_dir))
    /\ UNCHANGED <<session, CARD_STYLE>>

\* Texts of the age and gender columns are sequences of characters, so that
\* lower-casing, trimming and joining are computed, not assumed.
Chars(cs) == [tag |-> "chars", v |-> cs]

\* Series.astype(str) on one cell
astype_str(value) ==
    CASE value.tag = "chars" -> value.v
      [] value.tag = "nan" -> <<"n", "a", "n">>
      [] value = PyInt(30) -> <<"3", "0">>
      [] value = PyInt(45) -> <<"4", "5">>

\* str.lower() on the letters the tables use
str_lower(cs) ==
    [i \in DOMAIN cs |->
        CASE cs[i] = "F" -> "f"
          [] cs[i] = "M" -> "m"
          [] cs[i] = "N" -> "n"
          [] OTHER -> cs[i]]

\* str.strip(): leading and trailing blanks removed
RECURSIVE str_strip(_)
str_strip(cs) ==
    IF cs = <<>> THEN <<>>
    ELSE IF Head(cs) = " " THEN str_strip(Tail(cs))
    ELSE IF cs[Len(cs)] = " " THEN str_strip(SubSeq(cs, 1, Len(cs) - 1))
    ELSE cs

Age_Str(row) == astype_str(row["Age"])

\* variant: the gender is lower-cased but not trimmed
Gender_Norm_NoStrip(row) == str_lower(astype_str(row["Gender"]))

Gender_Norm(row) == str_strip(str_lower(astype_str(row["Gender"])))

\* the key synthesized from age and gender
SynthesizedKey(row) == Chars(Age_Str(row) \o <<"|">> \o Gender_Norm(row))

\* the key of a row: the ID verbatim when the table has an ID column,
\* otherwise the synthesized key
Patient_Key(columns, row) ==
    IF InSeq("ID", columns) THEN row["ID"] ELSE SynthesizedKey(row)

\* the Patient_Key column of a table
PatientKeyColumn(table) ==
    [i \in DOMAIN table.rows |-> Patient_Key(table.columns, table.rows[i])]

\* spellings of the two genders as the files may have them
FemaleSpellings == { <<"F">>, <<"f">>, <<" ", "f", " ">> }
MaleSpellings == { <<"M">>, <<"m", " ">> }

KeyRow(age, gender) == [Age |-> age, Gender |-> Chars(gender)]

\* rows of a table without identifiers; the last two have a bar in the age
\* text and in the gender text
KeyRows ==
    { KeyRow(PyInt(30), g) : g \in FemaleSpellings \cup MaleSpellings }
    \cup { KeyRow(PyInt(45), <<"F">>),
           KeyRow(Chars(<<"3", "0", "|">>), <<"f">>),
           KeyRow(Chars(<<"3", "0">>), <<"|", "f">>) }

\* tables with and without an ID column; the IDs repeat and include 0
KeyCalls ==
    { Pending("Patient_Key",
              [table |->
                  IF has_id
                  THEN [columns |-> <<"ID", "Age", "Gender">>,
                        rows |-> [i \in DOMAIN rows |->
                                    [c \in {"ID", "Age", "Gender"} |->
                                        IF c = "ID" THEN PyInt(i % 2) ELSE rows[i][c]]]]
                  ELSE [columns |-> <<"Age", "Gender">>, rows |-> rows]]) :
        rows \in SeqsUpTo(KeyRows, MaxRows), has_id \in BOOLEAN }

CallPatientKey ==
    /\ call.fn = "Patient_Key" /\ ~call.done
    /\ call' = Returned(PatientKeyColumn(call.args.table))
    /\ UNCHANGED <<session, CARD_STYLE>>

PendingCalls ==
    GaugeCalls \cup HistoryCalls \cup SectionCalls \cup OptionCalls \cup ScatterCalls
    \cup LoaderCalls \cup KeyCalls \cup DiagnosisCalls

PureInit == SessionInit /\ call \in PendingCalls

PureNext ==
    \/ CallGauge
    \/ CallHistory
    \/ CallSections
    \/ CallOptions
    \/ CallScatter
    \/ CallLoader
    \/ CallPatientKey

PureSpec == PureInit /\ [][PureNext]_vars

-----------------------------------------------------------------------------
(* Properties *)

LoggedOut == ~auth_store.authorized
LoggedIn == auth_store.authorized

\* the rows of the merged table whose Patient_Key is k
RowsOfKey(k) == SelectSeq(df.rows, LAMBDA r : r["Patient_Key"] = k)

NoGauges == InitialGaugeProps(EmptyDiv)

\* state NoPatientSelected of the view
NoPatientSelected ==
    /\ patient_data_store = <<>>
    /\ patient_results.kind # "sections"
    /\ visual_section = "none"

\* C1: a login submitted with an empty username or an empty password (None or
\* the empty string) leaves the auth state and every other part of the session
\* state as it was, and its feedback message is not empty.
C1_EmptyLoginKeepsState ==
    [][ (event'.type = "login"
           /\ (~Truthy(event'.username) \/ ~Truthy(event'.password)))
        => /\ auth_store' = auth_store
           /\ login_style' = login_style
           /\ dashboard_style' = dashboard_style
           /\ UNCHANGED <<datasets, CARD_STYLE, call, patient_dropdown, patient_data_store,
                          patient_results, visual_section, selected_metric, gauges>>
           /\ login_feedback' # "" ]_vars

C1_Witness ==
    /\ event.type = "login"
    /\ Truthy(event.username)
    /\ ~Truthy(event.password)
    /\ LoggedOut
    /\ login_feedback # ""

\* C2: a login submitted with a non-empty username and a non-empty password,
\* whatever they are, makes the session LoggedIn (authorized = true, the
\* username as submitted) with an empty feedback message.
C2_AnyCredentialsLogIn ==
    (event.type = "login" /\ Truthy(event.username) /\ Truthy(event.password))
    => /\ auth_store = [authorized |-> TRUE, username |-> event.username]
       /\ login_feedback = ""

C2_Witness ==
    /\ event.type = "login"
    /\ event.username = PyStr("bob")
    /\ event.password = PyStr("123")
    /\ auth_store = [authorized |-> TRUE, username |-> PyStr("bob")]

\* C3 as stated: right after a successful credential submission made in
\* LoggedOut the session is in NoPatientSelected: the patient data store is
\* empty, no patient view is rendered and the visual section is hidden.
C3_LoginLeadsToNoPatient ==
    (event.type = "login" /\ LoggedIn) => NoPatientSelected

\* What a login does to the view (the behaviour C3 is measured against): a
\* successful credential submission made in LoggedOut makes the session
\* LoggedIn and shows the dashboard, and leaves the patient selection as it was
\* before the submission (picker, data store, rendered results, visual section,
\* gauge toggles).
LoginKeepsPatientSelection ==
    [][ (event'.type = "login" /\ Truthy(event'.username) /\ Truthy(event'.password)
           /\ LoggedOut)
        => /\ auth_store'.authorized
           /\ dashboard_style' = "block"
           /\ login_style' = "none"
           /\ UNCHANGED <<patient_dropdown, patient_data_store, patient_results,
                          visual_section, gauges>> ]_vars

\* a login that finds the patient selected before the logout still selected
LoginFindsPatientSelected ==
    /\ event.type = "login"
    /\ LoggedIn
    /\ patient_dropdown = PyInt(1)
    /\ patient_data_store # <<>>
    /\ visual_section = "block"

\* C4: a logout (click count > 0) leaves the session LoggedOut and changes the
\* auth state only: the merged table, the source column map and the
\* distribution-plot table are unchanged, as is the rest of the session state.
C4_LogoutClearsAuthOnly ==
    [][ event'.type = "logout"
        => /\ auth_store' = [authorized |-> FALSE]
           /\ UNCHANGED datasets
           /\ UNCHANGED <<login_feedback, patient_dropdown, patient_data_store,
                          patient_results, visual_section, selected_metric, gauges>> ]_vars

C4_Witness ==
    /\ event.type = "logout"
    /\ LoggedOut
    /\ patient_data_store # <<>>
    /\ df = SampleDf

\* C5: after "none" is selected in the patient picker the session is in
\* NoPatientSelected (data store empty, results empty, visual section hidden)
\* and nothing derived from the previous patient is left: no gauge toggle, no
\* history figure, no metric card.
C5_SelectNoneClears ==
    (event.type = "select" /\ event.patient_key = None)
    => /\ patient_data_store = <<>>
       /\ patient_results = EmptyDiv
       /\ visual_section = "none"
       /\ gauges = NoGauges
       /\ RenderedGaugeBlocks(patient_results) = {}
       /\ RenderedCardMetrics(patient_results) = {}

\* "none" selected while a gauge of the previous patient was expanded
C5_Witness ==
    /\ event.type = "select"
    /\ event.patient_key = None
    /\ event.expanded # {}
    /\ gauges = NoGauges

\* C6 as stated: after a patient key that has a row in the merged table is
\* selected, the data store holds exactly the rows with that key, their
\* sections are rendered and the visual section is visible.
C6_SelectStoresRows ==
    (event.type = "select" /\ event.patient_key # None
       /\ RowsOfKey(event.patient_key) # <<>>)
    => /\ patient_data_store = RowsOfKey(event.patient_key)
       /\ patient_results.kind = "sections"
       /\ visual_section = "block"

\* C7 as stated: after a patient key that has no row in the merged table is
\* selected, the data store is empty and the empty-state message is rendered
\* where the user can see it.
C7_AbsentKeyShowsMessage ==
    (event.type = "select" /\ event.patient_key # None
       /\ RowsOfKey(event.patient_key) = <<>>)
    => /\ patient_data_store = <<>>
       /\ patient_results = NoPatientDataMessage
       /\ PatientResultsDisplayed

\* C8: activating a metric card sets Selected Metric to the card's metric when
\* the metric is a column of the distribution-plot table, and leaves Selected
\* Metric as it was when it is not.
C8_CardSetsMetricIfColumn ==
    [][ event'.type = "card"
        => selected_metric' = IF InSeq(event'.metric, blood_df)
                              THEN PyStr(event'.metric)
                              ELSE selected_metric ]_vars

\* a card of a metric outside the table activated after another card had set
\* Selected Metric
C8_Witness ==
    /\ event.type = "card"
    /\ ~InSeq(event.metric, blood_df)
    /\ selected_metric = PyStr("Eritrocity")

\* C9: only a metric-card activation changes Selected Metric: login, failed
\* login, logout, patient selection and gauge-toggle activation leave it as it
\* was.
C9_OnlyCardChangesMetric ==
    [][ event'.type # "card" => selected_metric' = selected_metric ]_vars

\* a metric chosen by a card is still selected after another patient was picked
C9_Witness ==
    /\ event.type = "select"
    /\ event.patient_key = PyInt(2)
    /\ selected_metric = PyStr("Eritrocity")
    /\ selected_metric # default_parameter(blood_df)

\* C10: every gauge toggle is Collapsed when the patient view is rendered
\* (click count 0, graph hidden, placeholder figure), and after k activations
\* since the render its history graph is shown exactly when k is odd.
C10_ToggleParity ==
    /\ \A id \in DOMAIN gauges :
          (gauges[id].style = "block") <=> (gauges[id].n_clicks % 2 = 1)
    /\ event.type = "select"
       => \A id \in DOMAIN gauges :
             /\ gauges[id].n_clicks = 0
             /\ gauges[id].style = "none"
             /\ gauges[id].figure = empty_gauge_figure(id.metric)

\* one toggle collapsed again by its second activation, another expanded by
\* its third
C10_Witness ==
    \E a, b \in DOMAIN gauges :
       /\ gauges[a].n_clicks = 2 /\ gauges[a].style = "none"
       /\ gauges[b].n_clicks = 3 /\ gauges[b].style = "block"

\* C11: gauge toggles with different (row, metric, source) keys are
\* independent: an activation leaves the props of every other toggle as they
\* were, the figure it produces is the history of its own (source, metric) over
\* the stored patient rows, and two activations of different toggles give the
\* same props in either order.
C11_TogglesIndependent ==
    /\ [][ event'.type = "toggle"
           => /\ DOMAIN gauges' = DOMAIN gauges
              /\ \A o \in DOMAIN gauges : o # event'.id => gauges'[o] = gauges[o]
              /\ gauges'[event'.id].figure =
                    _build_metric_history(patient_data_store,
                                          event'.id.source, event'.id.metric) ]_vars
    /\ [](\A a, b \in DOMAIN gauges :
             a # b => ToggledGauges(ToggledGauges(gauges, patient_data_store, a),
                                    patient_data_store, b)
                      = ToggledGauges(ToggledGauges(gauges, patient_data_store, b),
                                      patient_data_store, a))

\* a toggle activated while another toggle, with another figure, stays expanded
C11_Witness ==
    /\ event.type = "toggle"
    /\ \E o \in DOMAIN gauges :
          /\ o # event.id
          /\ gauges[o].style = "block"
          /\ gauges[event.id].style = "block"
          /\ gauges[o].figure # gauges[event.id].figure
          /\ gauges[o].n_clicks # gauges[event.id].n_clicks

\* C12: the reactor is idempotent under re-delivery: in the state an event
\* (login, logout, patient selection, card activation, gauge toggle) has left,
\* running its handler once more with the same inputs and the same click count
\* returns the outputs already written and leaves every piece of state as it is.
C12_RedeliveryIdempotent ==
    /\ event.type = "login" =>
          LET out == handle_login(PyInt(1), event.username, event.password)
          IN  /\ Written(out[1], auth_store) = auth_store
              /\ out[2] = login_feedback
              /\ toggle_pages(auth_store) = <<login_style, dashboard_style>>
    /\ event.type = "logout" =>
          /\ Written(handle_logout(PyInt(event.n_clicks)), auth_store) = auth_store
          /\ toggle_pages(auth_store) = <<login_style, dashboard_style>>
    /\ event.type = "select" =>
          /\ handle_patient_selection(event.patient_key)
                = <<patient_data_store, patient_results, visual_section>>
          /\ InitialGaugeProps(patient_results) = gauges
          /\ Written(set_selected_metric(None, selected_metric), selected_metric)
                = selected_metric
    /\ event.type = "card" =>
          Written(set_selected_metric([type |-> "metric-card", metric |-> event.metric],
                                      selected_metric),
                  selected_metric) = selected_metric
    /\ event.type = "toggle" =>
          toggle_gauge_plot(PyInt(gauges[event.id].n_clicks), patient_data_store,
                            event.id)
             = <<gauges[event.id].figure, gauges[event.id].style>>

\* a card activation has just changed the selected metric
C12_Witness ==
    /\ event.type = "card"
    /\ selected_metric = PyStr(event.metric)
    /\ selected_metric # default_parameter(blood_df)

\* a/b <= c/d on positions, for positive denominators
PositionLe(p, q) == p.num * q.den <= q.num * p.den

\* what the gauge reads from a cell: row.get, then _to_float
CellFloat(x) == _to_float(IF x = MissingKey THEN None ELSE x)

\* the value and both bounds parse to finite floats and max > min
Renderable(value, lo, hi) ==
    /\ {CellFloat(value), CellFloat(lo), CellFloat(hi)} \cap {None, NaN} = {}
    /\ CellFloat(hi).tenths > CellFloat(lo).tenths

\* C13: for a parseable value and parseable bounds with max > min the gauge
\* position is 0 when value <= min and 100 when value >= max, hence exactly 0
\* at min and exactly 100 at max, and a greater or equal value never gets a
\* smaller position.
C13_GaugePositionMonotonic ==
    (call.fn = "build_range_gauge" /\ call.done /\ Renderable(call.args.value, call.args.lo, call.args.hi)) =>
        LET v == _to_float(call.args.value).tenths
            lo == _to_float(call.args.lo).tenths
            hi == _to_float(call.args.hi).tenths
        IN  /\ call.out.kind = "gauge"
            /\ v <= lo => call.out.position = [num |-> 0, den |-> 1]
            /\ v >= hi => call.out.position = [num |-> 1000, den |-> 1]
            /\ \A w \in GaugeCells \ {MissingKey} :
                  (Renderable(w, call.args.lo, call.args.hi) /\ v <= _to_float(w).tenths)
                  => PositionLe(call.out.position,
                                build_hemoglobin_gauge(
                                    GaugeRow(w, call.args.lo, call.args.hi)).position)

\* a value exactly on the lower bound, with a larger value strictly inside
C13_Witness ==
    /\ call.fn = "build_range_gauge" /\ call.done
    /\ Renderable(call.args.value, call.args.lo, call.args.hi)
    /\ _to_float(call.args.value) = _to_float(call.args.lo)
    /\ call.out.position = [num |-> 0, den |-> 1]
    /\ \E w \in GaugeCells \ {MissingKey} :
          /\ Renderable(w, call.args.lo, call.args.hi)
          /\ build_hemoglobin_gauge(GaugeRow(w, call.args.lo, call.args.hi)).position.den > 1

\* a cell that holds nothing: None, the empty string, or a missing table cell
AbsentCell(x) == x \in {MissingKey, None, PyStr(""), NaN}

\* C14: build_range_gauge renders the "no data" placeholder, and no marker
\* position, whenever the value or a bound is absent (None, empty string, a
\* missing table cell) or does not parse as a number, or max <= min.
C14_PlaceholderWhenUndisplayable ==
    (/\ call.fn = "build_range_gauge" /\ call.done
     /\ \/ \E x \in {call.args.value, call.args.lo, call.args.hi} :
              AbsentCell(x) \/ (x.tag = "str" /\ FloatOfString(x.v) = None)
        \/ FloatLe(CellFloat(call.args.hi), CellFloat(call.args.lo)))
    => call.out = NoDataPlaceholder("Gemoglobin")

\* how many times x occurs in sequence s
Count(s, x) == Cardinality({i \in DOMAIN s : s[i] = x})

\* the rows of records that belong to the source and carry a value of the metric
UsableRows(records, source_name, metric_key) ==
    SelectSeq(records,
              LAMBDA r : /\ r["Source_File"] = PyStr(source_name)
                         /\ metric_key \in DOMAIN r
                         /\ ~isna(r[metric_key]))

\* C15: for stored rows that carry the source and date columns, the points of
\* _build_metric_history are exactly the rows of the given source whose metric
\* value is present, each row once, as (date, value), in ascending date order
\* (rows without a date last); rows of other sources and rows lacking the
\* metric give no point.
C15_HistoryPoints ==
    (call.fn = "_build_metric_history" /\ call.done
     /\ \A i \in DOMAIN call.args.records :
            {"Data", "Source_File"} \subseteq DOMAIN call.args.records[i]) =>
        LET usable == UsableRows(call.args.records, call.args.source_name, call.args.metric_key)
            expected == [i \in DOMAIN usable |->
                            <<usable[i]["Data"], usable[i][call.args.metric_key]>>]
            points == call.out.points
        IN  /\ Len(points) = Len(expected)
            /\ \A p \in Range(points) \cup Range(expected) :
                  Count(points, p) = Count(expected, p)
            /\ \A i, j \in DOMAIN points :
                  i < j => /\ isna(points[i][1]) => isna(points[j][1])
                           /\ (~isna(points[i][1]) /\ ~isna(points[j][1]))
                                 => points[i][1].v <= points[j][1].v

\* stored rows given latest first, with a row of another source and a row
\* lacking the metric among them
C15_Witness ==
    /\ call.fn = "_build_metric_history" /\ call.done
    /\ Len(call.args.records) = 3
    /\ "Data" \in DOMAIN call.args.records[1]
    /\ call.args.records[1]["Data"] = PyInt(62)
    /\ call.args.records[3]["Data"] = PyInt(33)
    /\ Len(call.out.points) = 2
    /\ call.out.points[1][1] = PyInt(33)

\* what tells the rows of one source apart in the view and in the table: the
\* date of the summary line and the text of the measurement's card
ShownKey(details) == <<details.summary.date_value, details.cards[1].text>>
TableKey(row) == <<DateValue(row), format_value(row["MCV"])>>

\* C16: build_patient_result_sections makes one section per source present in
\* the patient's rows, holding exactly the rows of that source; with a date
\* column the rows of a section run from the most recent date to the oldest
\* (rows without a date last), without one they keep the order of the table.
C16_SectionsByDateDescending ==
    (call.fn = "build_patient_result_sections" /\ call.done
     /\ call.args.patient_df.rows # <<>>) =>
        LET table == call.args.patient_df
            sections == call.out.sections
            has_date == DateColumn(Range(table.columns)) # None
        IN  /\ call.out.kind = "sections"
            /\ {sections[i].source : i \in DOMAIN sections}
                  = {r["Source_File"].v : r \in Range(table.rows)}
            /\ \A i, j \in DOMAIN sections :
                  sections[i].source = sections[j].source => i = j
            /\ \A i \in DOMAIN sections :
                  LET of_source == RowsOfSource(table.rows, sections[i].source)
                      expected == [k \in DOMAIN of_source |-> TableKey(of_source[k])]
                      shown == [k \in DOMAIN sections[i].rows |->
                                   ShownKey(sections[i].rows[k])]
                  IN  /\ Len(shown) = Len(expected)
                      /\ \A x \in Range(shown) \cup Range(expected) :
                            Count(shown, x) = Count(expected, x)
                      /\ ~has_date => shown = expected
                      /\ has_date =>
                            \A a, b \in DOMAIN of_source :
                               a < b =>
                                  LET da == sections[i].rows[a].summary.date_value
                                      db == sections[i].rows[b].summary.date_value
                                  IN  /\ isna(da) => isna(db)
                                      /\ (~isna(da) /\ ~isna(db)) => da.v >= db.v

\* a table that lists an older row of a source before a more recent one, shown
\* most recent first
C16_Witness ==
    /\ call.fn = "build_patient_result_sections" /\ call.done
    /\ Len(call.args.patient_df.rows) = 3
    /\ "Data" \in DOMAIN call.args.patient_df.rows[1]
    /\ call.args.patient_df.rows[1]["Data"] = PyInt(33)
    /\ call.args.patient_df.rows[3]["Data"] = PyInt(62)
    /\ Len(call.out.sections) = 2
    /\ Len(call.out.sections[1].rows) = 2
    /\ call.out.sections[1].rows[1].summary.date_value = PyInt(62)
    /\ call.out.sections[1].rows[2].summary.date_value = PyInt(33)

\* the cards of section sec that carry metric c
CardsOf(sec, c) ==
    { <<k, n>> \in (DOMAIN sec.rows) \X (1..Len(call.args.column_map[sec.source])) :
         /\ n \in DOMAIN sec.rows[k].cards
         /\ sec.rows[k].cards[n].metric = c }

\* C17: in the view of a source a column outside the source's original schema
\* gets no card at all, while every row that has no value for a column of the
\* schema shows that column as a card reading 'N/A'.
C17_MissingValueShownAsNA ==
    (call.fn = "build_patient_result_sections" /\ call.done
     /\ call.args.patient_df.rows # <<>>) =>
        \A i \in DOMAIN call.out.sections :
            LET sec == call.out.sections[i]
                schema == Range(call.args.column_map[sec.source])
                of_source == RowsOfSource(call.args.patient_df.rows, sec.source)
            IN  /\ \A k \in DOMAIN sec.rows :
                      \A n \in DOMAIN sec.rows[k].cards :
                          sec.rows[k].cards[n].metric \in schema
                /\ \A c \in schema \cap Range(call.args.patient_df.columns) :
                      Cardinality({k \in DOMAIN of_source : isna(of_source[k][c])})
                        = Cardinality({x \in CardsOf(sec, c) :
                                          sec.rows[x[1]].cards[x[2]].text = PyStr("N/A")})

\* C18: the patient view builder is idempotent and pure: building the view
\* leaves the merged table (rows, their order, columns), the source column map
\* and the shared card style as they were, and building it again from the same
\* patient rows and column map gives the view already rendered.
C18_ViewBuilderPure ==
    /\ [][ event'.type = "select" /\ patient_results'.kind = "sections"
           => /\ df' = df
              /\ source_column_map' = source_column_map
              /\ CARD_STYLE' = CARD_STYLE ]_vars
    /\ []( (event.type = "select" /\ patient_results.kind = "sections")
           => build_patient_result_sections(
                  [columns |-> df.columns, rows |-> RowsOfKey(event.patient_key)],
                  source_column_map) = patient_results )

\* a view was built that holds recoloured diagnosis cards next to plain ones
C18_Witness ==
    /\ event.type = "select"
    /\ patient_results.kind = "sections"
    /\ PositiveCardStyle \in RenderedCardStyles(patient_results)
    /\ CARD_STYLE \in RenderedCardStyles(patient_results)

\* the row at which value x first occurs in the ID column
FirstRow(rows, x) == CHOOSE i \in DOMAIN rows :
                        rows[i]["ID"] = x /\ \A j \in 1..(i - 1) : rows[j]["ID"] # x

\* C19: build_patient_options returns one option per distinct ID of the table
\* and none beyond, in the order in which the IDs first occur, each option with
\* the label 'Pacient: ID <id>' and the ID as its value.
C19_OneOptionPerPatient ==
    (call.fn = "build_patient_options" /\ call.done) =>
        LET rows == call.args.df_source.rows
            options == call.out
        IN  /\ {options[i].value : i \in DOMAIN options}
                  = {rows[i]["ID"] : i \in DOMAIN rows}
            /\ \A i, j \in DOMAIN options :
                  i < j => /\ options[i].value # options[j].value
                           /\ FirstRow(rows, options[i].value)
                                 < FirstRow(rows, options[j].value)
            /\ \A i \in DOMAIN options :
                  options[i].label = OptionLabel(options[i].value)

\* an ID that comes back after another one, and still gets one option
C19_Witness ==
    /\ call.fn = "build_patient_options" /\ call.done
    /\ Len(call.args.df_source.rows) = 3
    /\ call.args.df_source.rows[1]["ID"] = call.args.df_source.rows[3]["ID"]
    /\ call.args.df_source.rows[1]["ID"] # call.args.df_source.rows[2]["ID"]
    /\ Len(call.out) = 2
    /\ call.out[1].value = call.args.df_source.rows[1]["ID"]

SameGenderUpTo(rows, i) == {j \in 1..i : rows[j]["Pol"] = rows[i]["Pol"]}

ParsingFiles(data_dir) ==
    IF ~data_dir.exists THEN {}
    ELSE { n \in DOMAIN data_dir.files \cap {"analiz_krovi.csv", "analiz_mochi.csv"} :
              data_dir.files[n] # ParseError }

\* C21: load_all_datasets loads every csv file that parses whatever the other
\* files do: a file that fails to parse gives no row and no column-map entry,
\* every parsing file gives its column list and all its rows, in order, and
\* the load raises exactly when no file parsed.
C21_LoaderSkipsBadFiles ==
    (call.fn = "load_all_datasets" /\ call.done) =>
        LET data_dir == call.args.data_dir
            parsing == ParsingFiles(data_dir)
        IN  /\ (call.out.raised # "") <=> (parsing = {})
            /\ call.out.raised = "" =>
                  /\ DOMAIN call.out.column_map = parsing
                  /\ \A r \in Range(call.out.combined.rows) :
                        r["Source_File"].v \in parsing
                  /\ \A n \in parsing :
                        LET of_file == RowsOfSource(call.out.combined.rows, n)
                            file == data_dir.files[n]
                        IN  /\ call.out.column_map[n] = file.columns
                            /\ Len(of_file) = Len(file.rows)
                            /\ \A i \in DOMAIN file.rows :
                                  \A c \in DOMAIN file.rows[i] :
                                      of_file[i][c] = file.rows[i][c]

\* one file fails to parse, the other is loaded with its rows
C21_Witness ==
    /\ call.fn = "load_all_datasets" /\ call.done
    /\ call.args.data_dir.exists
    /\ "analiz_krovi.csv" \in DOMAIN call.args.data_dir.files
    /\ call.args.data_dir.files["analiz_krovi.csv"] = ParseError
    /\ call.out.raised = ""
    /\ DOMAIN call.out.column_map = {"analiz_mochi.csv"}
    /\ Len(call.out.combined.rows) = 1

\* two gender texts that differ in letter case and surrounding blanks at most
SameGender(a, b) ==
    \/ a = b
    \/ {a, b} \subseteq FemaleSpellings
    \/ {a, b} \subseteq MaleSpellings

C23_SynthesizedKeyInjective ==
    (call.fn = "Patient_Key" /\ call.done /\ ~InSeq("ID", call.args.table.columns)) =>
        \A i, j \in DOMAIN call.out :
            call.out[i] = call.out[j]
            => /\ Age_Str(call.args.table.rows[i]) = Age_Str(call.args.table.rows[j])
               /\ Gender_Norm(call.args.table.rows[i])
                     = Gender_Norm(call.args.table.rows[j])

\* C24: for a parseable value strictly between parseable bounds the gauge
\* position is 33.3 + ((value - min) / (max - min)) * 33.4 percent, which lies
\* between 33.3 and 66.7; and for every parseable value and bounds with
\* max > min the position lies between 0 and 100. (Positions are counted in
\* tenths of a percent.)
C24_PositionInMiddleThird ==
    (call.fn = "build_range_gauge" /\ call.done
     /\ Renderable(call.args.value, call.args.lo, call.args.hi)) =>
        LET v == CellFloat(call.args.value).tenths
            lo == CellFloat(call.args.lo).tenths
            hi == CellFloat(call.args.hi).tenths
            position == call.out.position
        IN  /\ position.den > 0
            /\ 0 <= position.num /\ position.num <= 1000 * position.den
            /\ (lo < v /\ v < hi) =>
                  /\ position.num * (hi - lo)
                        = position.den * (333 * (hi - lo) + 334 * (v - lo))
                  /\ 333 * position.den <= position.num
                  /\ position.num <= 667 * position.den

\* a value strictly between the bounds, read from a text with a decimal comma
C24_Witness ==
    /\ call.fn = "build_range_gauge" /\ call.done
    /\ Renderable(call.args.value, call.args.lo, call.args.hi)
    /\ call.args.value = PyStr("125,5")
    /\ CellFloat(call.args.lo).tenths < 1255
    /\ CellFloat(call.args.hi).tenths > 1255
    /\ call.out.position.num > 333 * call.out.position.den

\* C25: whenever a gauge toggle is expanded, its panel shows the history
\* builder's figure for the toggle's own source and metric over the
\* patient-data-store, and the store holds the rows of the patient selected in
\* the picker.
C25_ExpandedShowsOwnHistory ==
    \A id \in DOMAIN gauges :
        gauges[id].style = "block" =>
            /\ gauges[id].figure
                  = _build_metric_history(patient_data_store, id.source, id.metric)
            /\ patient_data_store = RowsOfKey(patient_dropdown)
            /\ patient_data_store # <<>>

\* an expanded platelet toggle whose history differs from the hemoglobin one
C25_Witness ==
    \E id \in DOMAIN gauges :
        /\ gauges[id].style = "block"
        /\ id.metric = "Trombocity"
        /\ gauges[id].figure.kind = "line"
        /\ gauges[id].figure
              # _build_metric_history(patient_data_store, id.source, "Gemoglobin")

\* the columns of the stored records
RecordColumns(records) == UNION {DOMAIN records[i] : i \in DOMAIN records}

\* C26: _build_metric_history returns the empty placeholder figure of the
\* metric when no usable point remains: no stored records, no Source_File
\* column, no row of the given source, no column of the metric, no date column,
\* or no row of the source with a value for the metric.
C26_PlaceholderWhenNoPoint ==
    (call.fn = "_build_metric_history" /\ call.done) =>
        LET records == call.args.records
            columns == RecordColumns(records)
            no_point ==
                \/ records = <<>>
                \/ "Source_File" \notin columns
                \/ \A i \in DOMAIN records :
                      records[i]["Source_File"] # PyStr(call.args.source_name)
                \/ call.args.metric_key \notin columns
                \/ {"Data", "Date"} \cap columns = {}
                \/ \A i \in DOMAIN records :
                      records[i]["Source_File"] = PyStr(call.args.source_name)
                      => isna(records[i][call.args.metric_key])
        IN  no_point => /\ call.out.kind = "empty"
                        /\ call.out.metric = call.args.metric_key
                        /\ call.out.points = <<>>
                        /\ call.out.min_norm = <<>> /\ call.out.max_norm = <<>>

\* rows of the source are stored, with a date, but none has the metric's value
C26_Witness ==
    /\ call.fn = "_build_metric_history" /\ call.done
    /\ Len(call.args.records) = 2
    /\ \A i \in DOMAIN call.args.records :
          /\ {"Data", "Source_File"} \subseteq DOMAIN call.args.records[i]
          /\ call.args.records[i]["Source_File"] = PyStr(call.args.source_name)
          /\ call.args.records[i]["Gemoglobin"] = NaN
    /\ call.args.metric_key = "Gemoglobin"
    /\ call.out.kind = "empty"

\* the diagnosis texts that read "positive" up to letter case and blanks around
PositiveSpellings == {"Positive", "positive", "POSITIVE", " POSITIVE "}

\* C27: in a urine source the card of 'Diagnoz' has the positive (red) style
\* exactly when the row's diagnosis is a text reading "positive" up to letter
\* case and surrounding blanks, and the other (green) style otherwise; the
\* diagnosis cards of other sources and all other cards have the default style.
C27_DiagnosisColouring ==
    (call.fn = "build_patient_result_sections" /\ call.done
     /\ InSeq("Diagnoz", call.args.patient_df.columns)
     /\ call.args.patient_df.rows # <<>>) =>
        \A i \in DOMAIN call.out.sections :
            LET sec == call.out.sections[i]
                of_source == RowsOfSource(call.args.patient_df.rows, sec.source)
            IN  \A k \in DOMAIN sec.rows :
                    /\ \E n \in DOMAIN sec.rows[k].cards :
                          sec.rows[k].cards[n].metric = "Diagnoz"
                    /\ \A n \in DOMAIN sec.rows[k].cards :
                          LET card == sec.rows[k].cards[n]
                              value == of_source[k]["Diagnoz"]
                          IN  IF card.metric = "Diagnoz" /\ sec.source \in URINE_FILES
                              THEN IF value.tag = "str" /\ value.v \in PositiveSpellings
                                   THEN card.style = PositiveCardStyle
                                   ELSE card.style = OtherCardStyle
                              ELSE card.style = CardStyleAtImport

\* a urine row reading 'Positive', a urine row without diagnosis and a blood
\* row reading ' POSITIVE '
C27_Witness ==
    /\ call.fn = "build_patient_result_sections" /\ call.done
    /\ InSeq("Diagnoz", call.args.patient_df.columns)
    /\ call.args.patient_df.rows
          = << DiagnosisRow("analiz_mochi.csv", PyStr("Positive")),
               DiagnosisRow("analiz_krovi.csv", PyStr(" POSITIVE ")),
               DiagnosisRow("analiz_mochi.csv", NaN) >>
    /\ call.out.sections[2].rows[1].cards[2].style = PositiveCardStyle
    /\ call.out.sections[2].rows[2].cards[2].style = OtherCardStyle
    /\ call.out.sections[1].rows[1].cards[2].style = CardStyleAtImport

\* the columns of the distribution-plot table that hold numbers
NumericColumns(blood_columns) ==
    SelectSeq(blood_columns, LAMBDA c : c # "Pol")

\* C28: before any card is activated the selected metric is the first preferred
\* metric that is a column of the distribution-plot table and, when the table
\* has no preferred metric, the first numeric column of the table.
C28_DefaultMetric ==
    event.type = "init" =>
        LET available == SelectSeq(numerical_cols, LAMBDA c : InSeq(c, blood_df))
        IN  selected_metric = IF available # <<>>
                              THEN PyStr(available[1])
                              ELSE PyStr(NumericColumns(blood_df)[1])

\* auth states with the authorized flag set
AuthorizedStates ==
    { [authorized |-> TRUE, username |-> u] : u \in Usernames } \cup { [authorized |-> TRUE] }

\* auth states toggle_pages may be handed: the ones the session writes, and
\* missing or malformed ones
AuthStates ==
    AuthorizedStates
    \cup { InitialAuth, [authorized |-> FALSE, username |-> PyStr("alice")],
           [username |-> PyStr("alice")],
           None, PyStr("authorized"), PyInt(1) }

\* the two pages as toggle_pages is to display them for an auth state
PagesFor(auth_data) ==
    IF auth_data \in AuthorizedStates THEN <<"none", "block">> ELSE <<"flex", "none">>

\* C29: after any sequence of logins, failed logins and logouts exactly one of
\* the login page and the dashboard page is displayed, the dashboard exactly
\* when the auth state is a mapping with a true authorized flag; toggle_pages
\* shows the login form alone for every other auth state, a missing or
\* malformed one included.
C29_ExactlyOnePage ==
    /\ <<login_style, dashboard_style>> \in {<<"none", "block">>, <<"flex", "none">>}
    /\ <<login_style, dashboard_style>> = PagesFor(auth_store)
    /\ \A a \in AuthStates : toggle_pages(a) = PagesFor(a)

\* the dashboard alone is displayed after a login that follows a logout (a
\* patient was selected in the earlier session)
C29_Witness ==
    /\ event.type = "login"
    /\ auth_store \in AuthorizedStates
    /\ patient_dropdown # None
    /\ <<login_style, dashboard_style>> = <<"none", "block">>

\* C30: after any sequence of patient selections the visual section is visible
\* exactly when the patient data store holds rows, and every row the store
\* holds has the Patient_Key that is selected in the picker.
C30_StoreMatchesSelection ==
    /\ visual_section = "block" <=> patient_data_store # <<>>
    /\ visual_section \in {"block", "none"}
    /\ \A i \in DOMAIN patient_data_store :
          patient_data_store[i]["Patient_Key"] = patient_dropdown

\* a patient with rows is selected: the store holds rows and the section shows
C30_Witness ==
    /\ event.type = "select"
    /\ event.patient_key = PyInt(2)
    /\ patient_dropdown = PyInt(2)
    /\ patient_data_store # <<>>
    /\ visual_section = "block"

====
